---- MODULE Spec2Model ----
(***************************************************************************)
(* State-machine model of tol-stack's sampling-and-composition core:       *)
(*   tol_stack/distributions.py  the screened samplers (rejection loops)   *)
(*   tol_stack/part.py           Part.__init__ / Part.refresh              *)
(*                                                                         *)
(* Floating-point values are modelled by integers.  np.random.normal is a  *)
(* nondeterministic draw from the finite window loc-scale .. loc+scale     *)
(* (scale = 0 yields loc itself, as numpy does).  Python's None and        *)
(* optional values are encoded as sequences: <<>> is None, <<x>> is x.     *)
(* Python strings are sequences of one-character strings.  Tolerances and  *)
(* concentricities are multiples of 3, so that `/ 3` is exact; the angle   *)
(* of a concentricity sample is a number of quarter turns.                 *)
(*                                                                         *)
(* Spec / FairSpec: callers of the four screened samplers.                 *)
(* PartSpec: construction and refresh of one Part.                         *)
(***************************************************************************)
EXTENDS Integers, Sequences, FiniteSets, TLC

\* ------------------------------------------------------------------ bounds
MaxSize == 2
MaxPartSize == 1

\* ------------------------------------------------------- program constants
_max_iterations == 100

\* ------------------------------------------------------------ value helpers
None == <<>>
Some(x) == <<x>>
IsNone(o) == o = <<>>
Val(o) == o[1]

Abs(x) == IF x < 0 THEN -x ELSE x

\* the limits argument: None, a float, or a tuple of floats
LimNone == [tag |-> "None", t |-> <<>>]
LimFloat(x) == [tag |-> "Float", t |-> <<x>>]
LimTuple(s) == [tag |-> "Tuple", t |-> s]

\* errors are Python exceptions: the class and the line that raises it
NoError == [kind |-> "", msg |-> ""]
Error(k, m) == [kind |-> k, msg |-> m]
ConvergenceError == Error("ValueError", "number of iterations exceeds the max allowable")
LimitsShapeError == Error("ValueError", "limits must be a tuple of exactly two floating-point values")
LenOfFloatError == Error("TypeError", "object of type float has no len()")
CompareNoneError == Error("TypeError", "comparison not supported between float and NoneType")

\* ---------------------------------------------------------------- sampling
\* np.random.normal(loc, scale, size): every array of `size` draws
Support(loc, scale) == (loc - scale)..(loc + scale)
Batches(loc, scale, size) == [1..size -> Support(loc, scale)]

Locs == {0, 1}
CallLocs == {0}
LimitVals == {0 - 1, 0, 1}
Sizes == 0..MaxSize
Scales == {0, 1}

\* the membership tests of the four screened samplers
\* mutant: the upper limit is not tested
keep_screened_upper_dropped(v, low_limit, high_limit) == v >= low_limit

keep_screened(v, low_limit, high_limit) == (v >= low_limit) /\ (v <= high_limit)

\* mutant: the low limit is used on both sides
keep_notched_low_twice(v, low_limit, high_limit) == (v <= low_limit) \/ (v >= low_limit)

keep_notched(v, low_limit, high_limit) == (v <= low_limit) \/ (v >= high_limit)

keep_lt(v, limit) == v <= limit

\* mutant: the comparison of norm_lt copied unchanged
keep_gt_as_lt(v, limit) == v <= limit

keep_gt(v, limit) == v >= limit

\* values[mask] for the sampler fn
Keep(fn, limits, v) ==
    CASE fn = "norm_screened" -> keep_screened(v, limits.t[1], limits.t[2])
      [] fn = "norm_notched"  -> keep_notched(v, limits.t[1], limits.t[2])
      [] fn = "norm_lt"       -> keep_lt(v, limits.t[1])
      [] fn = "norm_gt"       -> keep_gt(v, limits.t[1])

Filter(fn, limits, vals) == SelectSeq(vals, LAMBDA v : Keep(fn, limits, v))

\* mutant: the excess is not cut off
Truncate_missing(vals, size) == vals

\* values[:size]
Truncate(vals, size) == IF Len(vals) <= size THEN vals ELSE SubSeq(vals, 1, size)

\* count > _max_iterations
ExceedsMax(c) == c > _max_iterations

TwoSided == {"norm_screened", "norm_notched"}
OneSided == {"norm_lt", "norm_gt"}
Screened == TwoSided \cup OneSided

NoCall == [fn |-> "", loc |-> 0, scale |-> 0, limits |-> LimNone, size |-> 0,
           skewiness |-> None]
MkCall(fn, loc, scale, limits, size) ==
    [fn |-> fn, loc |-> loc, scale |-> scale, limits |-> limits, size |-> size,
     skewiness |-> None]


\* ------------------------------------------------------------------ strings
UpperAlphabet == <<"A","B","C","D","E","F","G","H","I","J","K","L","M",
                   "N","O","P","Q","R","S","T","U","V","W","X","Y","Z">>
LowerAlphabet == <<"a","b","c","d","e","f","g","h","i","j","k","l","m",
                   "n","o","p","q","r","s","t","u","v","w","x","y","z">>

\* the lowercase letter of each uppercase letter
LowerOf ==
    [c \in {UpperAlphabet[i] : i \in 1..Len(UpperAlphabet)} |->
        LowerAlphabet[CHOOSE i \in 1..Len(UpperAlphabet) : UpperAlphabet[i] = c]]

lower_char(c) == IF c \in DOMAIN LowerOf THEN LowerOf[c] ELSE c

\* str.lower()
lower(s) == [i \in 1..Len(s) |-> lower_char(s[i])]

\* `sub in s` for strings
contains(sub, s) ==
    \E i \in 0..(Len(s) - Len(sub)) : SubSeq(s, i + 1, i + Len(sub)) = sub

\* x in a_list
InList(x, l) == \E i \in 1..Len(l) : l[i] = x

s_norm == <<"n","o","r","m">>
s_norm_screened == s_norm \o <<"-","s","c","r","e","e","n","e","d">>
s_norm_notched == s_norm \o <<"-","n","o","t","c","h","e","d">>
s_norm_lt == s_norm \o <<"-","l","t">>
s_norm_gt == s_norm \o <<"-","g","t">>
s_skew == <<"s","k","e","w">>
s_skew_norm == s_skew \o <<"-","n","o","r","m">>
s_skew_normal == s_skew_norm \o <<"a","l">>

\* mutant: one kind missing from the list
retrieve_distributions_short ==
    <<s_norm, s_norm_screened, s_norm_notched, s_norm_lt, s_skew_norm>>

\* Part.retrieve_distributions()
retrieve_distributions ==
    <<s_norm, s_norm_screened, s_norm_notched, s_norm_lt, s_norm_gt, s_skew_norm>>

\* --------------------------------------------------------------------- Part
UnexpectedDistribution == Error("ValueError", "unexpected distribution")
SkewinessNotSpecified == Error("ValueError", "the skewiness must be specified")
DistributionInvalid == Error("ValueError", "distribution appears to be invalid")
ConcentricityOnlyNorm == Error("ValueError", "only the norm distribution is implemented for concentricity")
RunoutNotImplemented == Error("ValueError", "runout not currently implemented")
DivideNoneError == Error("TypeError", "unsupported operand type(s) for /: NoneType and int")
SkewnormArgError == Error("TypeError", "skewnorm.rvs: argument is None")

\* mutant: the sign is kept
stored_tolerance_signed(tolerance) == tolerance

\* abs(tolerance) if tolerance else tolerance
stored_tolerance(tolerance) ==
    IF ~IsNone(tolerance) /\ Val(tolerance) # 0
      THEN Some(Abs(Val(tolerance)))
      ELSE tolerance

\* mutant: the division by 3 is left out
Div3_missing(x) == x

\* x / 3 (the inputs are multiples of 3, so the quotient is exact)
Div3(x) == x \div 3

\* r * exp(1j * theta), theta in quarter turns
Polar(r, theta) ==
    CASE theta = 0 -> <<r, 0>>
      [] theta = 1 -> <<0, r>>
      [] theta = 2 -> <<0 - r, 0>>
      [] theta = 3 -> <<0, 0 - r>>
Angles == 0..3

NoPart ==
    [name |-> <<>>, distribution |-> <<>>, nominal_length |-> None,
     tolerance |-> None, concentricity |-> None, runout |-> None,
     _limits |-> LimNone, _size |-> 0, _skewiness |-> None,
     lengths |-> None, concentricities |-> None]

NoArgs ==
    [name |-> <<>>, distribution |-> <<>>, size |-> 0, nominal_length |-> None,
     tolerance |-> None, concentricity |-> None, runout |-> None,
     limits |-> LimNone, skewiness |-> None]

\* the object after the assignments of Part.__init__ (lines 69-101)
init_fields(a) ==
    [name |-> a.name, distribution |-> lower(a.distribution),
     nominal_length |-> a.nominal_length,
     tolerance |-> stored_tolerance(a.tolerance),
     concentricity |-> a.concentricity, runout |-> a.runout,
     _limits |-> a.limits, _size |-> a.size, _skewiness |-> a.skewiness,
     lengths |-> None, concentricities |-> None]

\* mutant: the distribution is matched without .lower()
init_check_case_sensitive(a) ==
    IF ~InList(a.distribution, retrieve_distributions)
      THEN UnexpectedDistribution
    ELSE IF contains(s_skew, a.distribution) /\ IsNone(a.skewiness)
      THEN SkewinessNotSpecified
    ELSE NoError

\* the checks at the top of Part.__init__ (lines 60-67): the error raised, if any
init_check(a) ==
    IF ~InList(lower(a.distribution), retrieve_distributions)
      THEN UnexpectedDistribution
    ELSE IF contains(s_skew, a.distribution) /\ IsNone(a.skewiness)
      THEN SkewinessNotSpecified
    ELSE NoError

\* mutant: the size passed to refresh is ignored
new_size_ignored(p, size) == p._size

\* if size is not None: self._size = size (lines 129-130)
new_size(p, size) == IF IsNone(size) THEN p._size ELSE Val(size)

\* mutant: every kind is given a concentricity population
concentricity_check_any(p) == NoError

\* `if self.concentricity is not None:` with a kind other than 'norm':
\* raise ValueError (lines 190-203)
concentricity_check(p) ==
    IF ~IsNone(p.concentricity) /\ p.distribution # s_norm
      THEN ConcentricityOnlyNorm ELSE NoError

\* mutant: a runout is silently ignored
runout_check_ignored(p) == NoError

\* if self.runout is not None: raise ValueError (lines 205-206)
runout_check(p) ==
    IF ~IsNone(p.runout) THEN RunoutNotImplemented ELSE NoError

\* if isinstance(self._limits, tuple): limit, *_ = self._limits
first_limit(limits) ==
    IF limits.tag = "Tuple" THEN LimFloat(limits.t[1]) ELSE limits

\* the sampler Part.refresh dispatches a distribution kind to
sampler_of(distribution) ==
    CASE distribution = s_norm          -> "norm"
      [] distribution = s_norm_screened -> "norm_screened"
      [] distribution = s_norm_notched  -> "norm_notched"
      [] distribution = s_norm_lt       -> "norm_lt"
      [] distribution = s_norm_gt       -> "norm_gt"
      [] distribution = s_skew_norm     -> "skew_normal"
      [] OTHER                          -> "invalid"

\* ---- configuration shape: Part.to_dict, Parser.dump_yaml, Parser.load_yaml ----

\* the keys of the mappings
k_name == <<"n", "a", "m", "e">>
k_distribution == <<"d", "i", "s", "t", "r", "i", "b", "u", "t", "i", "o", "n">>
k_nominal_value == <<"n", "o", "m", "i", "n", "a", "l", " ", "v", "a", "l", "u", "e">>
k_tolerance == <<"t", "o", "l", "e", "r", "a", "n", "c", "e">>

k_nominal_length == <<"n", "o", "m", "i", "n", "a", "l", "_", "l", "e", "n", "g", "t", "h">>

\* the parameter names of Part.__init__ (lines 43-56)
Params ==
    {<<"n", "a", "m", "e">>,
     <<"d", "i", "s", "t", "r", "i", "b", "u", "t", "i", "o", "n">>,
     <<"s", "i", "z", "e">>,
     <<"n", "o", "m", "i", "n", "a", "l", "_", "l", "e", "n", "g", "t", "h">>,
     <<"t", "o", "l", "e", "r", "a", "n", "c", "e">>,
     <<"c", "o", "n", "c", "e", "n", "t", "r", "i", "c", "i", "t", "y">>,
     <<"r", "u", "n", "o", "u", "t">>,
     <<"l", "i", "m", "i", "t", "s">>,
     <<"m", "a", "t", "e", "r", "i", "a", "l">>,
     <<"c", "t", "e">>,
     <<"c", "o", "m", "m", "e", "n", "t">>,
     <<"s", "k", "e", "w", "i", "n", "e", "s", "s">>,
     <<"i", "m", "a", "g", "e", "_", "p", "a", "t", "h", "s">>,
     <<"l", "o", "g", "l", "e", "v", "e", "l">>}

\* size: int = 100000
DefaultSize == 100000

\* str.strip(): leading and trailing blanks removed
RECURSIVE lstrip(_)
lstrip(s) == IF s # <<>> /\ Head(s) = " " THEN lstrip(Tail(s)) ELSE s

RECURSIVE rstrip(_)
rstrip(s) ==
    IF s # <<>> /\ s[Len(s)] = " " THEN rstrip(SubSeq(s, 1, Len(s) - 1)) ELSE s

strip(s) == rstrip(lstrip(s))

\* str.replace(a, b) for single characters a and b
replace(s, a, b) == [i \in 1..Len(s) |-> IF s[i] = a THEN b ELSE s[i]]

\* k.strip().replace(' ', '_') (parsing.py line 24)
clean_key(k) == replace(strip(k), " ", "_")

\* dict.get(k): the value, or None for a missing key
get(d, k) == IF k \in DOMAIN d THEN d[k] ELSE None

\* Part.to_dict (lines 109-115)
to_dict(p) ==
    (k_name :> p.name) @@ (k_distribution :> p.distribution)
        @@ (k_nominal_value :> p.nominal_length) @@ (k_tolerance :> p.tolerance)

\* the entry dump_yaml writes for one part: {name: part_data} (lines 52-58)
part_entry(d) ==
    [name |-> get(d, k_name),
     data |-> (k_distribution :> get(d, k_distribution))
                @@ (k_nominal_value :> get(d, k_nominal_value))
                @@ (k_tolerance :> get(d, k_tolerance))]

NoEntry == [name |-> None, data |-> <<>>]

\* values = {k.strip().replace(' ', '_'): v for k, v in part[part_name].items()}
load_values(data) ==
    [k \in {clean_key(j) : j \in DOMAIN data} |->
        data[CHOOSE j \in DOMAIN data : clean_key(j) = k]]

\* TypeError of the call Part(name=part_name, **values) for a keyword that is
\* no parameter of Part.__init__
UnexpectedKeyword ==
    Error("TypeError", "__init__() got an unexpected keyword argument")

\* the arguments Part(name=part_name, **values) binds: the given ones, and
\* the defaults of the signature for the others
bind(name, v) ==
    [name |-> name,
     distribution |-> IF k_distribution \in DOMAIN v THEN v[k_distribution] ELSE s_norm,
     size |-> DefaultSize,
     nominal_length |->
        IF k_nominal_length \in DOMAIN v THEN v[k_nominal_length] ELSE None,
     tolerance |-> IF k_tolerance \in DOMAIN v THEN v[k_tolerance] ELSE None,
     concentricity |-> None, runout |-> None,
     limits |-> LimNone, skewiness |-> None]


\* ---- StackPath ----

\* no StackPath has been created
NoStack ==
    [parts |-> <<>>, max_length |-> None, min_length |-> None,
     max_concentricity |-> None, size |-> 0]

\* no percentage was reported
NoReport == [below |-> None, above |-> None, outside |-> None]

\* mutant: a limit of 0.0 does not count as set
is_length_truthy(st) ==
    \/ (~IsNone(st.max_length) /\ Val(st.max_length) # 0)
    \/ (~IsNone(st.min_length) /\ Val(st.min_length) # 0)

\* StackPath.is_length (lines 73-75)
is_length(st) == ~IsNone(st.max_length) \/ ~IsNone(st.min_length)

\* StackPath.is_concentricity (lines 77-79)
is_concentricity(st) == ~IsNone(st.max_concentricity)

\* the method StackPath.show_dist calls (lines 116-122)
dispatch(st) ==
    IF is_length(st) THEN "show_length_dist"
    ELSE IF is_concentricity(st) THEN "show_concentricity_dist"
    ELSE "show_part_relative_dists"

\* mutant: retrieve_parts returns the owned list whatever safe is
returns_owned_always(safe) == TRUE

\* retrieve_parts(safe) returns self.parts itself, not self.parts.copy()
\* (lines 102-105)
returns_owned(safe) == ~safe

\* the caller holds no list
NoList == [held |-> FALSE, safe |-> FALSE, owned |-> FALSE, list |-> <<>>,
           before |-> <<>>, mutated |-> ""]

\* plt.subplots(0, ...)
SubplotsError == Error("ValueError", "Number of rows must be a positive integer")

\* part.show_dist(...): class Part has no such attribute
NoShowDist == Error("AttributeError", "'Part' object has no attribute 'show_dist'")

\* the largest number of Parts a caller puts on a StackPath
MaxParts == 2

\* the attributes class Part defines (part.py lines 43-206)
PartMethods == {"__init__", "__repr__", "to_dict", "retrieve_distributions", "refresh"}

\* part.set_size(...): class Part has no such attribute
NoSetSize == Error("AttributeError", "'Part' object has no attribute 'set_size'")

\* Part.__repr__ formats nominal_length and tolerance with :.03f
FormatNoneError ==
    Error("TypeError", "unsupported format string passed to NoneType.__format__")

\* the error of `f'... {part} ...'`, if any (part.py lines 105-107)
repr_check(p) ==
    IF IsNone(p.nominal_length) \/ IsNone(p.tolerance)
      THEN FormatNoneError ELSE NoError

NoLengthSpec ==
    Error("AttributeError", "does not have a proper length specification")
NoConcentricitySpec ==
    Error("AttributeError", "does not have a proper concentricity specification")

\* self.parts[0] on an empty list
EmptyPartsError == Error("IndexError", "list index out of range")

\* finals += x with arrays of lengths that do not broadcast
BroadcastError ==
    Error("ValueError", "non-broadcastable output operand")

\* plt.Circle((0, 0), None): radius * 2
RadiusNoneError ==
    Error("TypeError", "unsupported operand type(s) for *: 'NoneType' and 'int'")

\* numpy's rule for the in-place `finals += x`: x has the length of
\* finals, or the single element of x is added to every element
Broadcasts(f, x) == Len(x) = Len(f) \/ Len(x) = 1

\* np.zeros(n)
zeros(n) == [i \in 1..n |-> 0]

\* np.zeros(n) * np.exp(1j * thetas): n complex zeros
czeros(n) == [i \in 1..n |-> <<0, 0>>]

\* finals += x for real arrays
iadd(f, x) ==
    [i \in 1..Len(f) |-> f[i] + (IF Len(x) = 1 THEN x[1] ELSE x[i])]

\* finals += x for complex arrays
ciadd(f, x) ==
    [i \in 1..Len(f) |->
        LET z == IF Len(x) = 1 THEN x[1] ELSE x[i]
        IN <<f[i][1] + z[1], f[i][2] + z[2]>>]

\* the loop `for i in range(num_of_parts): finals += part.lengths` from
\* part i on: Some(finals), or None when an addition does not broadcast
RECURSIVE sum_lengths(_, _, _)
sum_lengths(f, ps, i) ==
    IF i > Len(ps) THEN Some(f)
    ELSE IF ~Broadcasts(f, Val(ps[i].lengths)) THEN None
    ELSE sum_lengths(iadd(f, Val(ps[i].lengths)), ps, i + 1)

\* the loop `finals += part.concentricities`
RECURSIVE sum_concentricities(_, _, _)
sum_concentricities(f, ps, i) ==
    IF i > Len(ps) THEN Some(f)
    ELSE IF ~Broadcasts(f, Val(ps[i].concentricities)) THEN None
    ELSE sum_concentricities(ciadd(f, Val(ps[i].concentricities)), ps, i + 1)

\* mutant: samples equal to the minimum count as below it
below_inclusive(f, m) == {i \in 1..Len(f) : f[i] <= m}

\* interference = [v for v in finals if v < self.min_length]
below(f, m) == {i \in 1..Len(f) : f[i] < m}

\* interference = [v for v in finals if v > self.max_length]
above(f, m) == {i \in 1..Len(f) : f[i] > m}

\* abs(finals.real) >= self.max_concentricity
outside(f, m) == {i \in 1..Len(f) : Abs(f[i][1]) >= m}

\* 100 * n / total as the fraction <<numerator, denominator>>
Percent(n, total) == <<100 * n, total>>

\* the percentage reported for the samples in S, when there are any
Reported(S, f) ==
    IF Cardinality(S) > 0 THEN Some(Percent(Cardinality(S), Len(f))) ELSE None

VARIABLES
    pc,       \* position of the running sampler: idle, test, returned, raised
    call,     \* arguments of the most recent sampler call
    values,   \* the sampler's local array `values` (its result once returned)
    count,    \* the sampler's local `count`
    serr,     \* the exception the sampler raised
    ctor,     \* arguments of the most recent Part(...) call
    part,     \* the Part object (self)
    op,       \* the Part method running or last run: __init__, refresh
    ppc,      \* position in it: none, lengths, await, conc, ready, failed
    perr,     \* the exception the method raised
    sampled,  \* whether the method has drawn random values so far
    changed,  \* whether the method has changed lengths, concentricities or _size
    given,    \* the size most recently passed to the constructor or to refresh
    dumped,   \* the entry dump_yaml wrote for the Part
    stack,    \* the StackPath object
    sop,      \* the StackPath method that runs or ran last
    spc,      \* where that method is
    idx,      \* the index of the part the method's refresh loop is at
    finals,   \* the composed population the method computed
    report,   \* the percentages the method reported
    sterr,    \* the exception the method raised
    via,      \* the StackPath method the caller called
    got       \* the list retrieve_parts returned to the caller

svars == <<pc, call, values, count, serr>>
pvars == <<ctor, part, op, ppc, perr, sampled, changed, given>>
dvars == <<dumped>>
stvars == <<stack, sop, spc, idx, finals, report, sterr, via, got>>
vars == <<pc, call, values, count, serr, ctor, part, op, ppc, perr, sampled, changed, given,
          dumped, stack, sop, spc, idx, finals, report, sterr, via, got>>

\* The body of a screened sampler up to the first test of the while loop:
\* the initial draw, the check of limits, the first filter, count = 0.
SamplerEnter(fn, loc, scale, limits, size) ==
    \E b \in Batches(loc, scale, size) :
        /\ call' = MkCall(fn, loc, scale, limits, size)
        /\ count' = 0
        /\ IF fn \in TwoSided /\ limits.tag = "None"
             THEN pc' = "returned" /\ values' = b /\ serr' = NoError
           ELSE IF fn \in TwoSided /\ limits.tag = "Float"
             THEN pc' = "raised" /\ values' = b /\ serr' = LenOfFloatError
           ELSE IF fn \in TwoSided /\ Len(limits.t) # 2
             THEN pc' = "raised" /\ values' = b /\ serr' = LimitsShapeError
           ELSE IF fn \in OneSided /\ limits.tag = "None"
             THEN IF b = <<>>
                    THEN pc' = "test" /\ values' = b /\ serr' = NoError
                    ELSE pc' = "raised" /\ values' = b /\ serr' = CompareNoneError
           ELSE pc' = "test" /\ values' = Filter(fn, limits, b) /\ serr' = NoError

\* mutant: the refill loop never counts its iterations
SamplerRefill_uncounted ==
    /\ pc = "test"
    /\ Len(values) < call.size
    /\ \E b \in Batches(call.loc, call.scale, call.size) :
          values' = Filter(call.fn, call.limits, values \o b)
    /\ UNCHANGED <<pc, count, serr, call>>
    /\ UNCHANGED <<pvars, dvars, stvars>>

\* One iteration of `while len(values) < size`: append a batch, filter,
\* count += 1, raise when count > _max_iterations.
SamplerRefill ==
    /\ pc = "test"
    /\ Len(values) < call.size
    /\ \E b \in Batches(call.loc, call.scale, call.size) :
          values' = Filter(call.fn, call.limits, values \o b)
    /\ count' = count + 1
    /\ IF ExceedsMax(count + 1)
         THEN pc' = "raised" /\ serr' = ConvergenceError
         ELSE pc' = "test" /\ serr' = NoError
    /\ UNCHANGED call
    /\ UNCHANGED <<pvars, dvars, stvars>>

\* The loop ends: values = values[:size]; return values
SamplerFinish ==
    /\ pc = "test"
    /\ ~(Len(values) < call.size)
    /\ values' = Truncate(values, call.size)
    /\ pc' = "returned"
    /\ UNCHANGED <<call, count, serr>>
    /\ UNCHANGED <<pvars, dvars, stvars>>

\* limits a caller may pass to each sampler
LimitInputs(fn) ==
    IF fn \in TwoSided
      THEN {LimNone, LimTuple(<<0>>), LimTuple(<<0, 0, 0>>)}
           \cup {LimTuple(<<lo, hi>>) : lo \in LimitVals, hi \in LimitVals}
      ELSE {LimNone} \cup {LimFloat(x) : x \in LimitVals}

\* a caller invokes one of the four screened samplers
Call ==
    /\ pc = "idle"
    /\ \E fn \in Screened, loc \in CallLocs, scale \in Scales, size \in Sizes :
         \E limits \in LimitInputs(fn) :
            SamplerEnter(fn, loc, scale, limits, size)
    /\ UNCHANGED <<pvars, dvars, stvars>>

\* the caller takes the array (or catches the exception); the frame is gone
Collect ==
    /\ pc \in {"returned", "raised"}
    /\ pc' = "idle"
    /\ call' = NoCall
    /\ values' = <<>>
    /\ count' = 0
    /\ serr' = NoError
    /\ UNCHANGED <<pvars, dvars, stvars>>


\* ------------------------------------------------------------ Part actions
Names == {<<"p", "1">>}
PartSizes == 0..MaxPartSize
Spellings ==
    {s_norm, <<"N","o","r","m">>, s_norm_screened, s_norm_notched, s_norm_lt,
     s_norm_gt, s_skew_norm, <<"S","k","e","w","-","N","o","r","m">>,
     s_skew_normal, <<"i","n","v","a","l","i","d"," ","d","i","s","t">>}
Tolerances == {None, Some(0 - 3), Some(0), Some(3)}
Nominals == {None} \cup {Some(x) : x \in Locs}
Concentricities == {None, Some(3)}
Runouts == {None, Some(1)}
Skewinesses == {None, Some(1)}
PartLimits == {LimNone, LimFloat(0), LimTuple(<<0, 0>>), LimTuple(<<0>>)}

\* The arguments the model constructs Parts with: limits are given with the
\* kinds that screen, a skewiness with the kinds spelled "skew".
PartArgs ==
    {a \in [name : Names, distribution : Spellings, size : PartSizes,
            nominal_length : Nominals, tolerance : Tolerances,
            concentricity : Concentricities, runout : Runouts,
            limits : PartLimits, skewiness : Skewinesses] :
        /\ a.limits # LimNone =>
              sampler_of(lower(a.distribution)) \in Screened
        /\ ~IsNone(a.skewiness) => contains(s_skew, lower(a.distribution))}

\* what a Part's refresh recomputes: the populations and the sample count
Populations(p) == <<p.lengths, p.concentricities, p._size>>

\* the method raises e
Raise(e) == ppc' = "failed" /\ perr' = e

\* Part.__init__ with the arguments a, up to the call of self.refresh()
Construct(a) ==
    /\ ctor' = a
    /\ IF init_check(a) # NoError
         THEN Raise(init_check(a)) /\ part' = NoPart
         ELSE ppc' = "lengths" /\ perr' = NoError /\ part' = init_fields(a)
    /\ op' = "__init__"
    /\ sampled' = FALSE
    /\ changed' = FALSE
    /\ given' = a.size
    /\ UNCHANGED <<svars, dvars, stvars>>

\* a caller constructs a Part
PartInit ==
    /\ ppc = "none"
    /\ \E a \in PartArgs : Construct(a)

\* a caller that holds the Part calls part.refresh(size)
PartRefresh ==
    /\ ppc = "ready" \/ (ppc = "failed" /\ op = "refresh")
    /\ \E size \in {None} \cup {Some(n) : n \in PartSizes} :
         /\ part' = [part EXCEPT !._size = new_size(part, size)]
         /\ given' = IF IsNone(size) THEN given ELSE Val(size)
    /\ op' = "refresh"
    /\ ppc' = "lengths"
    /\ perr' = NoError
    /\ sampled' = FALSE
    /\ changed' = (Populations(part') # Populations(part))
    /\ call' = NoCall
    /\ UNCHANGED <<ctor, pc, values, count, serr, dvars, stvars>>

\* Part.refresh, `if self.nominal_length is not None:` (lines 132-188)
RefreshLengths ==
    /\ ppc = "lengths"
    /\ LET fn == sampler_of(part.distribution)
           loc == Val(part.nominal_length)
           tol == Val(part.tolerance)
       IN
       IF IsNone(part.nominal_length)
         THEN ppc' = "conc" /\ UNCHANGED <<part, perr, sampled, svars>>
       ELSE IF fn = "invalid"
         THEN Raise(DistributionInvalid) /\ UNCHANGED <<part, sampled, svars>>
       ELSE IF fn = "skew_normal"
         THEN IF IsNone(part.tolerance)
                THEN Raise(SkewnormArgError) /\ UNCHANGED <<part, sampled, svars>>
              ELSE /\ call' = [MkCall(fn, loc, tol, LimNone, part._size)
                                 EXCEPT !.skewiness = part._skewiness]
                   /\ UNCHANGED <<pc, values, count, serr>>
                   /\ IF IsNone(part._skewiness)
                        THEN Raise(SkewnormArgError) /\ UNCHANGED <<part, sampled>>
                        ELSE /\ \E b \in Batches(loc, tol, part._size) :
                                   part' = [part EXCEPT !.lengths = Some(b)]
                             /\ sampled' = TRUE
                             /\ ppc' = "conc"
                             /\ UNCHANGED perr
       ELSE IF IsNone(part.tolerance)
         THEN Raise(DivideNoneError) /\ UNCHANGED <<part, sampled, svars>>
       ELSE IF fn = "norm"
         THEN /\ call' = MkCall(fn, loc, Div3(tol), LimNone, part._size)
              /\ \E b \in Batches(loc, Div3(tol), part._size) :
                    part' = [part EXCEPT !.lengths = Some(b)]
              /\ sampled' = TRUE
              /\ ppc' = "conc"
              /\ UNCHANGED <<pc, values, count, serr, perr>>
       ELSE /\ SamplerEnter(fn, loc, Div3(tol),
                            IF fn \in OneSided THEN first_limit(part._limits)
                                               ELSE part._limits,
                            part._size)
            /\ sampled' = TRUE
            /\ ppc' = "await"
            /\ UNCHANGED <<part, perr>>
    /\ changed' = (changed \/ Populations(part') # Populations(part))
    /\ UNCHANGED given
    /\ UNCHANGED <<ctor, op, dvars, stvars>>

\* the screened sampler returns to Part.refresh: self.lengths = <its array>,
\* or its exception propagates
RefreshAwait ==
    /\ ppc = "await"
    /\ pc \in {"returned", "raised"}
    /\ IF pc = "returned"
         THEN /\ part' = [part EXCEPT !.lengths = Some(values)]
              /\ ppc' = "conc"
              /\ UNCHANGED perr
         ELSE Raise(serr) /\ UNCHANGED part
    /\ pc' = "idle"
    /\ values' = <<>>
    /\ count' = 0
    /\ serr' = NoError
    /\ changed' = (changed \/ Populations(part') # Populations(part))
    /\ UNCHANGED given
    /\ UNCHANGED <<call, ctor, op, sampled, dvars, stvars>>

\* Part.refresh, `if self.concentricity is not None:` and
\* `if self.runout is not None:` (lines 190-206)
RefreshConcentricity ==
    /\ ppc = "conc"
    /\ IF concentricity_check(part) # NoError
         THEN Raise(concentricity_check(part)) /\ UNCHANGED <<part, sampled>>
       ELSE /\ IF ~IsNone(part.concentricity)
                 THEN /\ \E r \in Batches(0, Div3(Val(part.concentricity)), part._size) :
                          \E theta \in [1..part._size -> Angles] :
                             part' = [part EXCEPT !.concentricities =
                                        Some([i \in 1..part._size |-> Polar(r[i], theta[i])])]
                      /\ sampled' = TRUE
                 ELSE UNCHANGED <<part, sampled>>
            /\ IF runout_check(part) # NoError
                 THEN Raise(runout_check(part))
                 ELSE ppc' = "ready" /\ UNCHANGED perr
    /\ changed' = (changed \/ Populations(part') # Populations(part))
    /\ UNCHANGED given
    /\ UNCHANGED <<ctor, op, svars, dvars, stvars>>

\* the caller drops the Part (or the failed constructor's exception)
PartDiscard ==
    /\ ppc \in {"ready", "failed"}
    /\ ctor' = NoArgs
    /\ part' = NoPart
    /\ op' = ""
    /\ ppc' = "none"
    /\ perr' = NoError
    /\ sampled' = FALSE
    /\ changed' = FALSE
    /\ given' = 0
    /\ call' = NoCall
    /\ dumped' = NoEntry
    /\ UNCHANGED <<pc, values, count, serr, stvars>>

\* Parser.dump_yaml for a held Part: its to_dict() reduced to the entry
\* {name: {'distribution', 'nominal value', 'tolerance'}}
DumpYaml ==
    /\ ppc = "ready"
    /\ dumped = NoEntry
    /\ dumped' = part_entry(to_dict(part))
    /\ UNCHANGED <<svars, pvars, stvars>>

\* Parser.load_yaml for the entry written: the keys are cleaned and
\* Part(name=part_name, **values) is called
LoadYaml ==
    /\ ppc = "ready"
    /\ dumped # NoEntry
    /\ LET v == load_values(dumped.data)
           a == bind(dumped.name, v)
       IN IF DOMAIN v \ Params # {}
            THEN /\ Raise(UnexpectedKeyword) /\ part' = NoPart
                 /\ ctor' = NoArgs /\ given' = 0
          ELSE IF init_check(a) # NoError
            THEN /\ Raise(init_check(a)) /\ part' = NoPart
                 /\ ctor' = a /\ given' = a.size
          ELSE /\ ppc' = "lengths" /\ perr' = NoError
               /\ part' = init_fields(a) /\ ctor' = a /\ given' = a.size
    /\ op' = "load_yaml"
    /\ sampled' = FALSE
    /\ changed' = FALSE
    /\ call' = NoCall
    /\ UNCHANGED <<pc, values, count, serr, dvars, stvars>>

\* ---- StackPath actions ----

StackMins == {None, Some(0)}
StackMaxs == {None, Some(0)}
StackConcentricities == {None, Some(1)}
StackSizes == {1}

\* The arguments the model creates StackPaths with: length limits, a
\* concentricity limit (with a minimum length or without), or none of them.
StackArgs ==
    {a \in [max_length : StackMaxs, min_length : StackMins,
            concentricity : StackConcentricities, size : StackSizes] :
        ~IsNone(a.concentricity) => IsNone(a.max_length)}

\* StackPath.__init__ (lines 31-71, without images)
StackInit ==
    /\ spc = "none"
    /\ \E a \in StackArgs :
          stack' = [parts |-> <<>>, max_length |-> a.max_length,
                    min_length |-> a.min_length,
                    max_concentricity |-> a.concentricity, size |-> a.size]
    /\ spc' = "idle"
    /\ UNCHANGED <<sop, idx, finals, report, sterr, via, got, svars, pvars, dvars>>

\* the Parts a caller builds for a StackPath: a length part or a
\* concentricity part, of the norm kind
StackPartArgs ==
    {[NoArgs EXCEPT !.name = <<"p", "1">>, !.distribution = s_norm, !.size = n,
                    !.nominal_length = Some(0), !.tolerance = Some(3)] : n \in {1, 2}}
    \cup {[NoArgs EXCEPT !.name = <<"p", "2">>, !.distribution = s_norm,
                         !.size = 1, !.concentricity = Some(3)]}

\* a caller constructs a Part for the StackPath
StackPartInit ==
    /\ spc = "idle"
    /\ ppc = "none"
    /\ Len(stack.parts) < MaxParts
    /\ ~got.held
    /\ \E a \in StackPartArgs : Construct(a)

\* the Part method that runs is over and the caller holds no Part any more
ReleasePart ==
    /\ ctor' = NoArgs
    /\ part' = NoPart
    /\ op' = ""
    /\ ppc' = "none"
    /\ perr' = NoError
    /\ sampled' = FALSE
    /\ changed' = FALSE
    /\ given' = 0
    /\ call' = NoCall
    /\ UNCHANGED <<pc, values, count, serr, dvars>>

\* StackPath.add_part(part) (lines 81-91)
AddPart ==
    /\ spc = "idle"
    /\ ppc = "ready"
    /\ ~got.held
    /\ sop' = "add_part"
    /\ IF repr_check(part) # NoError
         THEN spc' = "raised" /\ sterr' = repr_check(part) /\ UNCHANGED stack
       ELSE IF "set_size" \notin PartMethods
         THEN spc' = "raised" /\ sterr' = NoSetSize /\ UNCHANGED stack
       ELSE /\ stack' = [stack EXCEPT !.parts = Append(@, part)]
            /\ spc' = "returned"
            /\ sterr' = NoError
    /\ UNCHANGED <<idx, finals, report, via, got, svars, pvars, dvars>>

\* a caller appends its Part to the list retrieve_parts(safe=False) returns,
\* which is self.parts itself (lines 93-105)
UnsafeAppend ==
    /\ spc = "idle"
    /\ ppc = "ready"
    /\ ~got.held
    /\ Len(stack.parts) < MaxParts
    /\ stack' = [stack EXCEPT !.parts = Append(@, part)]
    /\ ReleasePart
    /\ UNCHANGED <<sop, spc, idx, finals, report, sterr, via, got>>

\* StackPath.show_length_dist is called: self._refresh_parts() begins
ShowLengthDist ==
    /\ spc = "idle"
    /\ ppc = "none"
    /\ ~got.held
    /\ sop' = "show_length_dist"
    /\ via' = "show_length_dist"
    /\ spc' = "refresh"
    /\ idx' = 1
    /\ UNCHANGED <<stack, finals, report, sterr, got, svars, pvars, dvars>>

\* StackPath.show_dist is called: it calls the method of the mode
\* (lines 116-122), whose refresh loop begins
ShowDist ==
    /\ spc = "idle"
    /\ ppc = "none"
    /\ ~got.held
    /\ sop' = dispatch(stack)
    /\ via' = "show_dist"
    /\ spc' = "refresh"
    /\ idx' = 1
    /\ UNCHANGED <<stack, finals, report, sterr, got, svars, pvars, dvars>>

\* StackPath.show_concentricity_dist is called: its refresh loop begins
ShowConcentricityDist ==
    /\ spc = "idle"
    /\ ppc = "none"
    /\ ~got.held
    /\ sop' = "show_concentricity_dist"
    /\ via' = "show_concentricity_dist"
    /\ spc' = "refresh"
    /\ idx' = 1
    /\ UNCHANGED <<stack, finals, report, sterr, got, svars, pvars, dvars>>

\* `for part in self.parts: part.refresh()`: refresh of the next part begins
\* (no size is passed, so _size stays)
StackRefreshPart ==
    /\ spc = "refresh"
    /\ ppc = "none"
    /\ idx <= Len(stack.parts)
    /\ part' = stack.parts[idx]
    /\ given' = stack.parts[idx]._size
    /\ op' = "refresh"
    /\ ppc' = "lengths"
    /\ perr' = NoError
    /\ sampled' = FALSE
    /\ changed' = FALSE
    /\ call' = NoCall
    /\ UNCHANGED <<ctor, pc, values, count, serr, dvars, stvars>>

\* part.refresh() is over: its exception propagates, or the loop tests the
\* population (lines 111-113 and 255-257) and goes on
StackRefreshDone ==
    /\ spc = "refresh"
    /\ ppc \in {"ready", "failed"}
    /\ stack' = [stack EXCEPT !.parts[idx] = part]
    /\ IF ppc = "failed"
         THEN spc' = "raised" /\ sterr' = perr /\ UNCHANGED idx
       ELSE IF sop \in {"show_length_dist", "show_part_relative_dists"}
               /\ IsNone(part.lengths)
         THEN spc' = "raised" /\ sterr' = NoLengthSpec /\ UNCHANGED idx
       ELSE IF sop = "show_concentricity_dist" /\ IsNone(part.concentricities)
         THEN spc' = "raised" /\ sterr' = NoConcentricitySpec /\ UNCHANGED idx
       ELSE idx' = idx + 1 /\ UNCHANGED <<spc, sterr>>
    /\ ReleasePart
    /\ UNCHANGED <<sop, finals, report, via, got>>

\* show_length_dist after self._refresh_parts(): the sum and the
\* percentages (lines 197-242; the drawing is left out)
ComposeLengths ==
    /\ spc = "refresh"
    /\ sop = "show_length_dist"
    /\ ppc = "none"
    /\ idx > Len(stack.parts)
    /\ IF stack.parts = <<>>
         THEN spc' = "raised" /\ sterr' = EmptyPartsError
              /\ UNCHANGED <<finals, report>>
       ELSE LET f == sum_lengths(zeros(Len(Val(stack.parts[1].lengths))),
                                 stack.parts, 1)
            IN IF IsNone(f)
                 THEN spc' = "raised" /\ sterr' = BroadcastError
                      /\ UNCHANGED <<finals, report>>
                 ELSE /\ finals' = Val(f)
                      /\ report' =
                           [below |-> IF ~IsNone(stack.min_length)
                                        THEN Reported(below(Val(f), Val(stack.min_length)), Val(f))
                                        ELSE None,
                            above |-> IF ~IsNone(stack.max_length)
                                        THEN Reported(above(Val(f), Val(stack.max_length)), Val(f))
                                        ELSE None,
                            outside |-> None]
                      /\ spc' = "returned"
                      /\ sterr' = NoError
    /\ UNCHANGED <<stack, sop, idx, via, got, svars, pvars, dvars>>

\* show_concentricity_dist after its refresh loop: the complex sum and
\* the percentage (lines 263-299; the drawing is left out but for the
\* radius of the limit circle)
ComposeConcentricity ==
    /\ spc = "refresh"
    /\ sop = "show_concentricity_dist"
    /\ ppc = "none"
    /\ idx > Len(stack.parts)
    /\ IF stack.parts = <<>>
         THEN spc' = "raised" /\ sterr' = EmptyPartsError
              /\ UNCHANGED <<finals, report>>
       ELSE LET f == sum_concentricities(
                         czeros(Len(Val(stack.parts[1].concentricities))),
                         stack.parts, 1)
            IN IF IsNone(f)
                 THEN spc' = "raised" /\ sterr' = BroadcastError
                      /\ UNCHANGED <<finals, report>>
               ELSE IF IsNone(stack.max_concentricity)
                 THEN spc' = "raised" /\ sterr' = RadiusNoneError
                      /\ UNCHANGED <<finals, report>>
               ELSE /\ finals' = Val(f)
                    /\ report' =
                         [below |-> None, above |-> None,
                          outside |-> Reported(outside(Val(f), Val(stack.max_concentricity)),
                                               Val(f))]
                    /\ spc' = "returned"
                    /\ sterr' = NoError
    /\ UNCHANGED <<stack, sop, idx, via, got, svars, pvars, dvars>>

\* the caller takes the figure or the exception of the StackPath method
StackCollect ==
    /\ spc \in {"returned", "raised"}
    /\ spc' = "idle"
    /\ idx' = 0
    /\ finals' = <<>>
    /\ report' = NoReport
    /\ sterr' = NoError
    /\ sop' = ""
    /\ via' = ""
    /\ UNCHANGED <<stack, got, svars, pvars, dvars>>

\* show_part_relative_dists after self._refresh_parts() (lines 127-155):
\* the figure of the Parts' own distributions, no derived population
ComposeRelative ==
    /\ spc = "refresh"
    /\ sop = "show_part_relative_dists"
    /\ ppc = "none"
    /\ idx > Len(stack.parts)
    /\ IF stack.parts = <<>>
         THEN spc' = "raised" /\ sterr' = SubplotsError
       ELSE IF "show_dist" \notin PartMethods
         THEN spc' = "raised" /\ sterr' = NoShowDist
       ELSE spc' = "returned" /\ sterr' = NoError
    /\ UNCHANGED <<stack, sop, idx, finals, report, via, got, svars, pvars, dvars>>

\* StackPath.retrieve_parts(safe) (lines 93-105); the caller uses the list
\* before it calls the StackPath again
RetrieveParts ==
    /\ spc = "idle"
    /\ ppc \in {"none", "ready"}
    /\ ~got.held
    /\ \E safe \in BOOLEAN :
          got' = [held |-> TRUE, safe |-> safe, owned |-> returns_owned(safe),
                  list |-> stack.parts, before |-> stack.parts, mutated |-> ""]
    /\ UNCHANGED <<stack, sop, spc, idx, finals, report, sterr, via,
                   svars, pvars, dvars>>

\* the caller appends its Part to the list it got: the owned list changes
\* with it when the list is the owned list itself
ListAppend ==
    /\ got.held
    /\ got.mutated = ""
    /\ ppc = "ready"
    /\ Len(got.list) < MaxParts
    /\ got' = [got EXCEPT !.list = Append(@, part), !.mutated = "append"]
    /\ stack' = IF got.owned THEN [stack EXCEPT !.parts = Append(@, part)]
                ELSE stack
    /\ ReleasePart
    /\ UNCHANGED <<sop, spc, idx, finals, report, sterr, via>>

\* the caller removes the last element of the list it got (list.pop())
ListRemove ==
    /\ got.held
    /\ got.mutated = ""
    /\ got.list # <<>>
    /\ got' = [got EXCEPT !.list = SubSeq(@, 1, Len(@) - 1), !.mutated = "remove"]
    /\ stack' = IF got.owned
                  THEN [stack EXCEPT !.parts = SubSeq(@, 1, Len(@) - 1)]
                ELSE stack
    /\ UNCHANGED <<sop, spc, idx, finals, report, sterr, via, svars, pvars, dvars>>

\* the caller drops the list it got
ListDrop ==
    /\ got.held
    /\ got' = NoList
    /\ UNCHANGED <<stack, sop, spc, idx, finals, report, sterr, via,
                   svars, pvars, dvars>>

Init ==
    /\ pc = "idle"
    /\ call = NoCall
    /\ values = <<>>
    /\ count = 0
    /\ serr = NoError
    /\ ctor = NoArgs
    /\ part = NoPart
    /\ op = ""
    /\ ppc = "none"
    /\ perr = NoError
    /\ sampled = FALSE
    /\ changed = FALSE
    /\ given = 0
    /\ dumped = NoEntry
    /\ stack = NoStack
    /\ sop = ""
    /\ spc = "none"
    /\ idx = 0
    /\ finals = <<>>
    /\ report = NoReport
    /\ sterr = NoError
    /\ via = ""
    /\ got = NoList

Next == Call \/ SamplerRefill \/ SamplerFinish \/ Collect

Spec == Init /\ [][Next]_vars

FairSpec == Init /\ [][Next]_vars /\ WF_vars(Next)

PartNext ==
    \/ PartInit
    \/ PartRefresh
    \/ RefreshLengths
    \/ SamplerRefill
    \/ SamplerFinish
    \/ RefreshAwait
    \/ RefreshConcentricity
    \/ PartDiscard
    \/ DumpYaml
    \/ LoadYaml

PartSpec == Init /\ [][PartNext]_vars

StackNext ==
    \/ StackInit
    \/ StackPartInit
    \/ RefreshLengths
    \/ RefreshConcentricity
    \/ AddPart
    \/ UnsafeAppend
    \/ ShowLengthDist
    \/ ShowConcentricityDist
    \/ StackRefreshPart
    \/ StackRefreshDone
    \/ ComposeLengths
    \/ ComposeConcentricity
    \/ StackCollect
    \/ ShowDist
    \/ ComposeRelative
    \/ RetrieveParts
    \/ ListAppend
    \/ ListRemove
    \/ ListDrop

StackSpec == Init /\ [][StackNext]_vars

\* ------------------------------------------------------------------ claims
ReturnedPair(fn) ==
    pc = "returned" /\ call.fn = fn /\ call.limits.tag = "Tuple"

\* C1: whenever a screened sampler returns, the returned array has exactly
\* `size` elements, whatever batches were drawn.
C1_ExactSize == pc = "returned" => Len(values) = call.size

C1_Witness == pc = "returned" /\ count >= 2 /\ call.size = MaxSize /\ call.scale > 0

\* C2: every value norm_screened returns for limits (low, high) satisfies
\* low <= v <= high.
C2_InBand ==
    ReturnedPair("norm_screened") =>
        \A i \in 1..Len(values) :
            call.limits.t[1] <= values[i] /\ values[i] <= call.limits.t[2]

C2_Witness ==
    /\ ReturnedPair("norm_screened") /\ count >= 1 /\ Len(values) = MaxSize
    /\ call.limits.t[1] < call.limits.t[2]

\* C3: every value norm_notched returns for limits (low, high) satisfies
\* v <= low or v >= high.
C3_OutOfBand ==
    ReturnedPair("norm_notched") =>
        \A i \in 1..Len(values) :
            values[i] <= call.limits.t[1] \/ values[i] >= call.limits.t[2]

C3_Witness ==
    /\ ReturnedPair("norm_notched") /\ count >= 1 /\ Len(values) = MaxSize
    /\ call.limits.t[1] < call.limits.t[2]

\* C4: every value norm_lt returns is <= limit and every value norm_gt
\* returns is >= limit.
C4_OneSided ==
    (pc = "returned" /\ call.limits.tag = "Float") =>
        /\ call.fn = "norm_lt" => \A i \in 1..Len(values) : values[i] <= call.limits.t[1]
        /\ call.fn = "norm_gt" => \A i \in 1..Len(values) : values[i] >= call.limits.t[1]

C4_Witness ==
    /\ pc = "returned" /\ call.fn = "norm_gt" /\ call.limits.tag = "Float"
    /\ count >= 1 /\ Len(values) = MaxSize

\* C5: the number of refill iterations executed never exceeds the ceiling
\* of 100, and a sampler that is still looping or has returned after at most
\* that many refills has raised nothing.
C5_RefillCeiling ==
    /\ count <= _max_iterations
    /\ (pc \in {"test", "returned"} => serr = NoError)

\* the membership test a call asks for, as the samplers document it
Accepts(c, v) ==
    CASE c.fn = "norm_screened" -> c.limits.t[1] <= v /\ v <= c.limits.t[2]
      [] c.fn = "norm_notched"  -> v <= c.limits.t[1] \/ v >= c.limits.t[2]
      [] c.fn = "norm_lt"       -> v <= c.limits.t[1]
      [] c.fn = "norm_gt"       -> v >= c.limits.t[1]
      [] OTHER                   -> TRUE

\* size > 0 and no value the draw can produce passes the membership test
Unreachable(c) ==
    /\ c.fn \in Screened
    /\ c.size > 0
    /\ IF c.fn \in TwoSided
         THEN c.limits.tag = "Tuple" /\ Len(c.limits.t) = 2
         ELSE c.limits.tag = "Float"
    /\ \A v \in Support(c.loc, c.scale) : ~Accepts(c, v)

\* C6: a screened sampler whose membership test no drawn value satisfies
\* (size > 0) never returns an array and always ends by raising the
\* convergence error.
C6_Terminates ==
    /\ [](Unreachable(call) => pc # "returned")
    /\ [](pc = "test" /\ Unreachable(call)
            => <>(pc = "raised" /\ serr = ConvergenceError))

C6_Witness ==
    /\ pc = "raised" /\ serr = ConvergenceError /\ Unreachable(call)
    /\ call.fn = "norm_screened" /\ call.limits.t[1] > call.limits.t[2]

\* a Part(...) call has been made and not yet dropped
Attempted == ctor # NoArgs

\* the constructor rejected the distribution string
Rejected == ppc = "failed" /\ perr = UnexpectedDistribution

\* C7: construction fails with the invalid-distribution error exactly when
\* the lowercased distribution string is not in the recognized list; the
\* failure comes before any sampling and leaves no object, and a constructed
\* Part holds the lowercase form.
C7_InvalidDistribution ==
    Attempted =>
        /\ Rejected <=> ~InList(lower(ctor.distribution), retrieve_distributions)
        /\ Rejected => (op = "__init__" /\ ~sampled /\ part = NoPart /\ call = NoCall)
        /\ part # NoPart => part.distribution = lower(ctor.distribution)

C7_Witness ==
    /\ op = "__init__" /\ ppc = "ready"
    /\ ctor.distribution = <<"N","o","r","m">>
    /\ part.distribution = s_norm

\* a spelling of a skew-type kind that the constructor's list accepts
SkewSpelling(d) ==
    InList(lower(d), retrieve_distributions) /\ contains(s_skew, lower(d))

\* C8: constructing a Part with a skew-type distribution (any letter case)
\* and no skewness fails with the missing-parameter error in the
\* constructor's check, and the sampler is never called without a skewness.
C8_SkewNeedsSkewiness ==
    (Attempted /\ SkewSpelling(ctor.distribution) /\ IsNone(ctor.skewiness)) =>
        /\ ppc = "failed" /\ perr = SkewinessNotSpecified /\ part = NoPart
        /\ ~(call.fn = "skew_normal" /\ IsNone(call.skewiness))

\* the kinds as the specification's data model lists them
SpecKinds ==
    {s_norm, s_norm_screened, s_norm_notched, s_norm_lt, s_norm_gt, s_skew_normal}

\* the kinds with the skewed one spelled "skew-norm"
AmendedKinds ==
    {s_norm, s_norm_screened, s_norm_notched, s_norm_lt, s_norm_gt, s_skew_norm}

\* the sampler each kind stands for
KindSampler(d) ==
    CASE d = s_norm          -> "norm"
      [] d = s_norm_screened -> "norm_screened"
      [] d = s_norm_notched  -> "norm_notched"
      [] d = s_norm_lt       -> "norm_lt"
      [] d = s_norm_gt       -> "norm_gt"
      [] OTHER               -> "skew_normal"

\* C9 as stated: a Part accepts exactly the tags norm, norm-screened,
\* norm-notched, norm-lt, norm-gt and skew-normal.
C9_SpecKindsAccepted ==
    Attempted => (~Rejected <=> lower(ctor.distribution) \in SpecKinds)

\* C9 amended: a Part accepts exactly the tags norm, norm-screened,
\* norm-notched, norm-lt, norm-gt and skew-norm, and refresh dispatches each
\* of them to its own sampler (never to the invalid-distribution branch).
C9_KindsAccepted ==
    Attempted =>
        /\ ~Rejected <=> lower(ctor.distribution) \in AmendedKinds
        /\ call # NoCall => call.fn = KindSampler(part.distribution)
        /\ perr # DistributionInvalid

C9_Witness ==
    /\ op = "__init__" /\ ppc = "ready"
    /\ ctor.distribution = s_skew_norm
    /\ call.fn = "skew_normal"
    /\ ~IsNone(part.lengths)

\* C10: a Part constructed with a numeric tolerance t stores |t|, which is
\* never negative, and a negative t alone makes no construction fail: a
\* plain norm Part without concentricity and runout is always constructed.
C10_ToleranceAbs ==
    (Attempted /\ ~IsNone(ctor.tolerance)) =>
        /\ part # NoPart =>
              /\ part.tolerance = Some(Abs(Val(ctor.tolerance)))
              /\ Val(part.tolerance) >= 0
        /\ (/\ lower(ctor.distribution) = s_norm
            /\ IsNone(ctor.concentricity)
            /\ IsNone(ctor.runout)) => (ppc # "failed" /\ part # NoPart)

C10_Witness ==
    /\ op = "__init__" /\ ppc = "ready"
    /\ ~IsNone(ctor.tolerance)
    /\ Val(ctor.tolerance) < 0
    /\ part.tolerance = Some(3)
    /\ ~IsNone(part.lengths)

\* C11: whenever refresh raises, the Part's lengths, concentricities and
\* sample count are what they were when refresh was called.
C11_RefreshTransactional ==
    (op = "refresh" /\ ppc = "failed") => ~changed

\* C19: refresh calls the sampler of the distribution kind with
\* loc = nominal_length and size = the sample count, with scale =
\* tolerance / 3 for the norm kinds and scale = tolerance for the skew kind;
\* without a nominal_length no length population is computed.
C19_Dispatch ==
    part # NoPart =>
        /\ call # NoCall =>
              /\ ~IsNone(part.nominal_length)
              /\ call.fn = KindSampler(part.distribution)
              /\ call.loc = Val(part.nominal_length)
              /\ call.size = part._size
              /\ IF call.fn = "skew_normal"
                   THEN call.scale = Val(part.tolerance)
                   ELSE 3 * call.scale = Val(part.tolerance)
        /\ IsNone(part.nominal_length) => (IsNone(part.lengths) /\ call = NoCall)
        /\ (ppc = "ready" /\ ~IsNone(part.nominal_length)) =>
              (call # NoCall /\ ~IsNone(part.lengths))

C19_Witness ==
    /\ ppc = "ready" /\ op = "refresh"
    /\ part.distribution = s_norm_gt
    /\ call.fn = "norm_gt" /\ call.scale = 1 /\ call.loc = 1 /\ call.size = MaxPartSize
    /\ part.tolerance = Some(3)

\* C20: a Part(...) call with a runout never returns a Part, whatever the
\* other arguments are: it ends in an exception, and no Part a caller holds
\* has a runout.
C20_RunoutFails ==
    /\ (Attempted /\ ~IsNone(ctor.runout)) =>
          /\ ppc # "ready"
          /\ op = "__init__"
          /\ ppc = "failed" => perr # NoError
    /\ (ppc = "ready" \/ op = "refresh") => IsNone(part.runout)

C20_Witness ==
    /\ ppc = "failed" /\ perr = RunoutNotImplemented
    /\ ~IsNone(part.lengths) /\ ~IsNone(part.concentricities)

\* C18: a Part written with to_dict()/dump_yaml and rebuilt the way load_yaml
\* does is constructed successfully, with the nominal length, tolerance and
\* distribution of the original.
C18_RoundTrip ==
    (op = "load_yaml" /\ ppc \in {"ready", "failed"}) =>
        /\ ppc = "ready"
        /\ part.nominal_length = dumped.data[k_nominal_value]
        /\ part.tolerance = dumped.data[k_tolerance]
        /\ part.distribution = dumped.data[k_distribution]

\* the error conditions of the taxonomy that the code raises
TaxonomyErrors ==
    {UnexpectedDistribution, SkewinessNotSpecified, ConcentricityOnlyNorm,
     RunoutNotImplemented, ConvergenceError}

\* C17: the error conditions of the taxonomy are raised as different error
\* kinds: whenever one of them is raised, its kind is the kind of no other
\* condition of the taxonomy.
C17_DistinctKinds ==
    perr \in TaxonomyErrors =>
        \A e \in TaxonomyErrors : e # perr => e.kind # perr.kind

\* add_part has returned or raised
AddPartDone == sop = "add_part" /\ spc \in {"returned", "raised"}

\* the sample count of the population the StackPath evaluates (-1: none)
RelevantCount(p) ==
    LET pop == IF ~IsNone(stack.max_length) \/ ~IsNone(stack.min_length)
                 THEN p.lengths ELSE p.concentricities
    IN IF IsNone(pop) THEN 0 - 1 ELSE Len(Val(pop))

\* C12: add_part on a StackPath that holds a Part fails with the
\* sample-size-mismatch error when the new Part's sample count differs from
\* the held Parts', and succeeds when the counts agree.
C12_SizeMismatch ==
    (AddPartDone /\ Len(stack.parts) > 0) =>
        IF RelevantCount(part) # RelevantCount(stack.parts[1])
          THEN spc = "raised" /\ sterr.kind = "SampleSizeMismatchError"
          ELSE spc = "returned"

\* C13: a StackPath is created with no parts, and add_part(p) with a valid
\* Part returns with p as the last element of the part list.
C13_AppendsInOrder ==
    /\ (spc = "none") => stack.parts = <<>>
    /\ AddPartDone =>
          /\ spc = "returned"
          /\ stack.parts # <<>>
          /\ stack.parts[Len(stack.parts)].name = part.name

\* the sum of sample i of the lengths of the parts from part k on
RECURSIVE SampleSum(_, _, _)
SampleSum(ps, i, k) ==
    IF k > Len(ps) THEN 0 ELSE Val(ps[k].lengths)[i] + SampleSum(ps, i, k + 1)

\* C14: when show_length_dist returns, every owned Part has been refreshed,
\* the derived population has the length of every Part's population, and
\* each of its samples is the sum of the Parts' samples at that index.
C14_ElementwiseSum ==
    (sop = "show_length_dist" /\ spc = "returned") =>
        /\ idx = Len(stack.parts) + 1
        /\ \A k \in 1..Len(stack.parts) :
              Len(Val(stack.parts[k].lengths)) = Len(finals)
        /\ \A i \in 1..Len(finals) : finals[i] = SampleSum(stack.parts, i, 1)

\* |z| >= m for the complex number z = <<re, im>>
MagnitudeAtLeast(z, m) == m <= 0 \/ z[1] * z[1] + z[2] * z[2] >= m * m

\* C15: when show_concentricity_dist returns, the percentage reported is
\* 100 * count / total, where count is the number of composed samples z
\* with |z| >= max_concentricity.
C15_RadialCount ==
    (sop = "show_concentricity_dist" /\ spc = "returned") =>
        LET far == {i \in 1..Len(finals) :
                      MagnitudeAtLeast(finals[i], Val(stack.max_concentricity))}
        IN report.outside =
              IF far = {} THEN None
              ELSE Some(<<100 * Cardinality(far), Len(finals)>>)

\* C16: when show_length_dist returns, a percentage below the minimum (above
\* the maximum) is reported only if min_length (max_length) is set, 0
\* included; it is 100 * n / len(finals), n being the number of samples
\* strictly below min_length (strictly above max_length).
C16_LengthPercent ==
    (sop = "show_length_dist" /\ spc = "returned") =>
        LET n == Len(finals)
            lo == IF IsNone(stack.min_length) THEN {}
                  ELSE {i \in 1..n : finals[i] < Val(stack.min_length)}
            hi == IF IsNone(stack.max_length) THEN {}
                  ELSE {i \in 1..n : finals[i] > Val(stack.max_length)}
        IN /\ report.below =
                 IF lo = {} THEN None ELSE Some(<<100 * Cardinality(lo), n>>)
           /\ report.above =
                 IF hi = {} THEN None ELSE Some(<<100 * Cardinality(hi), n>>)

C16_Witness ==
    /\ sop = "show_length_dist" /\ spc = "returned"
    /\ stack.min_length = Some(0) /\ stack.max_length = Some(0)
    /\ finals = <<0 - 1, 0>>
    /\ report.below = Some(<<100, 2>>)
    /\ report.above = None

\* C21: a Part with a concentricity and a kind other than norm never comes
\* out of refresh or of its constructor: the call ends in an error, and only
\* Parts of the norm kind ever hold a concentricity population.
C21_ConcentricityOnlyNorm ==
    part # NoPart =>
        /\ (~IsNone(part.concentricity) /\ part.distribution # s_norm) =>
              /\ ppc # "ready"
              /\ ppc = "failed" => perr # NoError
        /\ ~IsNone(part.concentricities) => part.distribution = s_norm

C21_Witness ==
    /\ ppc = "failed" /\ perr = ConcentricityOnlyNorm
    /\ part.distribution = s_norm_screened
    /\ ~IsNone(part.lengths)
    /\ IsNone(part.concentricities)

\* C27: a Part that its constructor or a refresh has returned holds lengths
\* iff nominal_length is set and concentricities iff concentricity is set,
\* each with exactly _size elements, and _size is the size most recently
\* passed to refresh, or else the constructor's.
C27_Populations ==
    ppc = "ready" =>
        /\ ~IsNone(part.lengths) <=> ~IsNone(part.nominal_length)
        /\ ~IsNone(part.concentricities) <=> ~IsNone(part.concentricity)
        /\ ~IsNone(part.lengths) => Len(Val(part.lengths)) = part._size
        /\ ~IsNone(part.concentricities) =>
              Len(Val(part.concentricities)) = part._size
        /\ part._size = given

C27_Witness ==
    /\ ppc = "ready" /\ op = "refresh"
    /\ ctor.size = 0 /\ given = MaxPartSize
    /\ ~IsNone(part.lengths) /\ Len(Val(part.lengths)) = MaxPartSize
    /\ ~IsNone(part.concentricities) /\ Len(Val(part.concentricities)) = MaxPartSize

\* the limits have the shape the kind's sampler needs: a pair for
\* norm-screened and norm-notched, a scalar for norm-lt and norm-gt
LimitsFit(p) ==
    LET fn == sampler_of(p.distribution)
    IN /\ fn \in TwoSided => (p._limits.tag = "Tuple" /\ Len(p._limits.t) = 2)
       /\ fn \in OneSided => p._limits.tag = "Float"

\* C26: a Part with a nominal length and of a kind that needs limits,
\* constructed without limits or with limits of the wrong shape, is
\* rejected: its constructor never returns it, and no length population is
\* sampled for it.
C26_LimitsValidated ==
    (/\ part # NoPart
     /\ ~IsNone(part.nominal_length)
     /\ sampler_of(part.distribution) \in Screened
     /\ ~LimitsFit(part)) =>
        /\ ppc # "ready"
        /\ IsNone(part.lengths)

\* C22: show_dist runs the length composition iff min_length or max_length
\* is set (0.0 included), else the concentricity composition iff
\* max_concentricity is set, else the relative view, and the relative view
\* composes no derived population and reports no percentage.
C22_ModeSelection ==
    via = "show_dist" =>
        LET lengthSet == stack.min_length # None \/ stack.max_length # None
            concSet == stack.max_concentricity # None
        IN /\ sop = "show_length_dist" <=> lengthSet
           /\ sop = "show_concentricity_dist" <=> (~lengthSet /\ concSet)
           /\ sop = "show_part_relative_dists" <=> (~lengthSet /\ ~concSet)
           /\ sop = "show_part_relative_dists" =>
                 (finals = <<>> /\ report = NoReport /\ spc # "returned")
           /\ sop # "show_length_dist" => (report.below = None /\ report.above = None)
           /\ sop # "show_concentricity_dist" => report.outside = None

C22_Witness ==
    /\ via = "show_dist" /\ spc = "returned"
    /\ sop = "show_length_dist"
    /\ stack.min_length = Some(0) /\ stack.max_length = None
    /\ stack.max_concentricity = Some(1)
    /\ report.below # None

\* the lengths of the populations the running composition adds up
ComposedCounts ==
    {Len(Val(IF sop = "show_length_dist" THEN stack.parts[k].lengths
             ELSE stack.parts[k].concentricities)) : k \in 1..Len(stack.parts)}

\* C23: show_length_dist and show_concentricity_dist return a derived
\* population only when the owned Parts' populations all have the same
\* length; otherwise they raise.
C23_EqualCounts ==
    (sop \in {"show_length_dist", "show_concentricity_dist"} /\ spc = "returned") =>
        Cardinality(ComposedCounts) = 1

\* the orders the owned Parts can be listed in
Reorderings(ps) ==
    {[i \in 1..Len(ps) |-> ps[f[i]]] : f \in Permutations(1..Len(ps))}

\* C24: when show_length_dist returns, the composition loop run over any
\* other order of the same Part populations gives the same derived
\* population.
C24_OrderIndependent ==
    (sop = "show_length_dist" /\ spc = "returned") =>
        \A q \in Reorderings(stack.parts) :
            sum_lengths(zeros(Len(Val(q[1].lengths))), q, 1) = Some(finals)

\* C25: after the caller has appended to or removed from the list it got
\* from retrieve_parts, StackPath.parts is what it was if the list was got
\* with safe=True (a copy), and has changed with the list if it was got
\* with safe=False (the owned list).
C25_SafeCopy ==
    (got.held /\ got.mutated # "") =>
        /\ got.list # got.before
        /\ IF got.safe THEN stack.parts = got.before
                       ELSE stack.parts = got.list

C25_Witness ==
    /\ got.held /\ got.safe /\ got.mutated = "append"
    /\ Len(got.list) = 2 /\ Len(stack.parts) = 1

====
